---- MODULE Spec2Model ----
(***************************************************************************)
(* Model of organism.h: the Organism value type (species, vitality and the *)
(* two compile-time diet flags), its eat and breed methods, encounter,     *)
(* operator+ and encounter_series.                                         *)
(*                                                                         *)
(* Two specifications share the module.  Spec applies one of eat, breed    *)
(* or encounter to a pair of organisms drawn from a bounded set;           *)
(* SeriesSpec runs the left fold of encounter_series one operator+ at a    *)
(* time over a bounded argument pack.                                      *)
(***************************************************************************)
EXTENDS Integers, Sequences, FiniteSets, TLC

(* o1, o2       the two organisms of a call on a pair                       *)
(* call         "none" before the call, then "eat", "breed" or "encounter" *)
(* result       the value the call returned: an organism for eat and       *)
(*              breed, the tuple <<r1, r2, offspring>> for encounter       *)
(* protagonist  organism1 of encounter_series                              *)
(* args         the argument pack of encounter_series                      *)
(* acc          the running value of the fold expression                   *)
(* history      the running values so far, history[1] = protagonist        *)
(* pc           "fold" while folding, "done" once returned                 *)
VARIABLES o1, o2, call, result, protagonist, args, acc, history, pc

vars == <<o1, o2, call, result, protagonist, args, acc, history, pc>>

pairVars == <<o1, o2, call, result>>

seriesVars == <<protagonist, args, acc, history, pc>>

-----------------------------------------------------------------------------
(* Bounds of the model.  vitality is a uint64_t in the source; the model   *)
(* keeps the unsigned wrap-around but at VitalityBits bits.                *)

VitalityBits == 3

(* encounter_series is run on packs of at most MaxArgs organisms whose     *)
(* vitalities are at most MaxSeriesVitality                                *)
MaxArgs == 2

MaxSeriesVitality == 2

Modulus == 2 ^ VitalityBits

VitalityT == 0 .. (Modulus - 1)

(* species_t is any equality comparable type; two values make equal and    *)
(* unequal species                                                         *)
SpeciesT == {"cat", "dog"}

(* unsigned arithmetic of the vitality type *)
UAdd(a, b) == (a + b) % Modulus

USub(a, b) == (a - b + Modulus) % Modulus

-----------------------------------------------------------------------------
(* The Organism class template: the two bool template parameters are kept  *)
(* as fields of the value.                                                 *)

Organism(species, vitality, can_eat_meat, can_eat_plants) ==
    [species |-> species, vitality |-> vitality,
     can_eat_meat |-> can_eat_meat, can_eat_plants |-> can_eat_plants]

Carnivore(species, vitality) == Organism(species, vitality, TRUE, FALSE)

Omnivore(species, vitality) == Organism(species, vitality, TRUE, TRUE)

Herbivore(species, vitality) == Organism(species, vitality, FALSE, TRUE)

Plant(species, vitality) == Organism(species, vitality, FALSE, FALSE)

Organisms ==
    [species : SpeciesT, vitality : VitalityT,
     can_eat_meat : BOOLEAN, can_eat_plants : BOOLEAN]

get_vitality(this) == this.vitality

get_species(this) == this.species

is_dead(this) == this.vitality = 0

is_plant(this) == ~this.can_eat_meat /\ ~this.can_eat_plants

(* same instantiation of the template, i.e. the same pair of diet flags *)
SameDiet(a, b) ==
    a.can_eat_meat = b.can_eat_meat /\ a.can_eat_plants = b.can_eat_plants

-----------------------------------------------------------------------------
(* Organism::eat *)

(* does the diet of a permit eating the kind of b: this_can_eat of a.eat(b) *)
(* and o_can_eat of b.eat(a)                                               *)
CanEat(a, b) == IF is_plant(b) THEN a.can_eat_plants ELSE a.can_eat_meat

(* eat with `vitality >= o.get_vitality()` in the predation test *)
eat_ge(this, o) ==
    LET this_is_plant == is_plant(this)
        o_is_plant == is_plant(o)
        this_can_eat == IF o_is_plant THEN this.can_eat_plants ELSE this.can_eat_meat
        o_can_eat == IF this_is_plant THEN o.can_eat_plants ELSE o.can_eat_meat
    IN  IF this_can_eat /\ o_is_plant
        THEN Organism(this.species, UAdd(this.vitality, get_vitality(o)),
                      this.can_eat_meat, this.can_eat_plants)
        ELSE IF this_can_eat /\ this.vitality >= get_vitality(o)
        THEN Organism(this.species, UAdd(this.vitality, get_vitality(o) \div 2),
                      this.can_eat_meat, this.can_eat_plants)
        ELSE IF o_can_eat /\ (this_is_plant \/ get_vitality(o) > this.vitality
                              \/ (this_can_eat /\ get_vitality(o) = this.vitality))
        THEN Organism(this.species, 0, this.can_eat_meat, this.can_eat_plants)
        ELSE this

(* eat without the tie clause `this_can_eat && o.get_vitality() == vitality` *)
eat_no_tie(this, o) ==
    LET this_is_plant == is_plant(this)
        o_is_plant == is_plant(o)
        this_can_eat == IF o_is_plant THEN this.can_eat_plants ELSE this.can_eat_meat
        o_can_eat == IF this_is_plant THEN o.can_eat_plants ELSE o.can_eat_meat
    IN  IF this_can_eat /\ o_is_plant
        THEN Organism(this.species, UAdd(this.vitality, get_vitality(o)),
                      this.can_eat_meat, this.can_eat_plants)
        ELSE IF this_can_eat /\ this.vitality > get_vitality(o)
        THEN Organism(this.species, UAdd(this.vitality, get_vitality(o) \div 2),
                      this.can_eat_meat, this.can_eat_plants)
        ELSE IF o_can_eat /\ (this_is_plant \/ get_vitality(o) > this.vitality)
        THEN Organism(this.species, 0, this.can_eat_meat, this.can_eat_plants)
        ELSE this

(* eat without `this_is_plant ||` in the death test: an eaten plant dies   *)
(* only when the eater is the stronger one                                 *)
eat_plant_survives(this, o) ==
    LET this_is_plant == is_plant(this)
        o_is_plant == is_plant(o)
        this_can_eat == IF o_is_plant THEN this.can_eat_plants ELSE this.can_eat_meat
        o_can_eat == IF this_is_plant THEN o.can_eat_plants ELSE o.can_eat_meat
    IN  IF this_can_eat /\ o_is_plant
        THEN Organism(this.species, UAdd(this.vitality, get_vitality(o)),
                      this.can_eat_meat, this.can_eat_plants)
        ELSE IF this_can_eat /\ this.vitality > get_vitality(o)
        THEN Organism(this.species, UAdd(this.vitality, get_vitality(o) \div 2),
                      this.can_eat_meat, this.can_eat_plants)
        ELSE IF o_can_eat /\ (get_vitality(o) > this.vitality
                              \/ (this_can_eat /\ get_vitality(o) = this.vitality))
        THEN Organism(this.species, 0, this.can_eat_meat, this.can_eat_plants)
        ELSE this

eat(this, o) ==
    LET this_is_plant == is_plant(this)
        o_is_plant == is_plant(o)
        this_can_eat == IF o_is_plant THEN this.can_eat_plants ELSE this.can_eat_meat
        o_can_eat == IF this_is_plant THEN o.can_eat_plants ELSE o.can_eat_meat
    IN  IF this_can_eat /\ o_is_plant
        THEN Organism(this.species, UAdd(this.vitality, get_vitality(o)),
                      this.can_eat_meat, this.can_eat_plants)
        ELSE IF this_can_eat /\ this.vitality > get_vitality(o)
        THEN Organism(this.species, UAdd(this.vitality, get_vitality(o) \div 2),
                      this.can_eat_meat, this.can_eat_plants)
        ELSE IF o_can_eat /\ (this_is_plant \/ get_vitality(o) > this.vitality
                              \/ (this_can_eat /\ get_vitality(o) = this.vitality))
        THEN Organism(this.species, 0, this.can_eat_meat, this.can_eat_plants)
        ELSE this

-----------------------------------------------------------------------------
(* Organism::breed, with std::min, std::max and std::midpoint on uint64_t  *)

min(a, b) == IF b < a THEN b ELSE a

max(a, b) == IF a < b THEN b ELSE a

(* the midpoint as (a + b) / 2 in the vitality type, the sum wrapping *)
midpoint_naive(a, b) == UAdd(a, b) \div 2

(* std::midpoint for an unsigned integer type: a + k * ((M - m) / 2) with  *)
(* k = -1, m = b, M = a when a > b, and k = 1, m = a, M = b otherwise      *)
midpoint(a, b) ==
    IF a > b
    THEN USub(a, USub(a, b) \div 2)
    ELSE UAdd(a, USub(b, a) \div 2)

breed(this, o) ==
    Organism(this.species,
             midpoint(min(this.vitality, get_vitality(o)),
                      max(this.vitality, get_vitality(o))),
             this.can_eat_meat, this.can_eat_plants)

-----------------------------------------------------------------------------
(* encounter: the requires clause, the std::optional and the function      *)

nullopt == {}

Some(x) == {x}

(* requires (o1_eats_m || o1_eats_p || o2_eats_m || o2_eats_p) *)
WellFormed(organism1, organism2) ==
    \/ organism1.can_eat_meat
    \/ organism1.can_eat_plants
    \/ organism2.can_eat_meat
    \/ organism2.can_eat_plants

(* encounter with the diet flags crossed in the breeding test:            *)
(* o1_eats_m == o2_eats_p && o1_eats_p == o2_eats_m                        *)
encounter_crossed_flags(organism1, organism2) ==
    IF is_dead(organism1) \/ is_dead(organism2)
    THEN <<organism1, organism2, nullopt>>
    ELSE IF organism1.can_eat_meat = organism2.can_eat_plants
            /\ organism1.can_eat_plants = organism2.can_eat_meat
            /\ get_species(organism1) = get_species(organism2)
    THEN <<organism1, organism2, Some(breed(organism1, organism2))>>
    ELSE <<eat(organism1, organism2), eat(organism2, organism1), nullopt>>

(* encounter with `&&` in the dead test *)
encounter_both_dead(organism1, organism2) ==
    IF is_dead(organism1) /\ is_dead(organism2)
    THEN <<organism1, organism2, nullopt>>
    ELSE IF SameDiet(organism1, organism2)
            /\ get_species(organism1) = get_species(organism2)
    THEN <<organism1, organism2, Some(breed(organism1, organism2))>>
    ELSE <<eat(organism1, organism2), eat(organism2, organism1), nullopt>>

(* encounter whose dead test looks at organism2 only *)
encounter_second_dead(organism1, organism2) ==
    IF is_dead(organism2)
    THEN <<organism1, organism2, nullopt>>
    ELSE IF SameDiet(organism1, organism2)
            /\ get_species(organism1) = get_species(organism2)
    THEN <<organism1, organism2, Some(breed(organism1, organism2))>>
    ELSE <<eat(organism1, organism2), eat(organism2, organism1), nullopt>>

(* encounter that resolves organism2 against the already resolved organism1 *)
encounter_sequential(organism1, organism2) ==
    IF is_dead(organism1) \/ is_dead(organism2)
    THEN <<organism1, organism2, nullopt>>
    ELSE IF SameDiet(organism1, organism2)
            /\ get_species(organism1) = get_species(organism2)
    THEN <<organism1, organism2, Some(breed(organism1, organism2))>>
    ELSE <<eat(organism1, organism2),
           eat(organism2, eat(organism1, organism2)), nullopt>>

encounter(organism1, organism2) ==
    IF is_dead(organism1) \/ is_dead(organism2)
    THEN <<organism1, organism2, nullopt>>
    ELSE IF SameDiet(organism1, organism2)
            /\ get_species(organism1) = get_species(organism2)
    THEN <<organism1, organism2, Some(breed(organism1, organism2))>>
    ELSE <<eat(organism1, organism2), eat(organism2, organism1), nullopt>>

(* operator+ taking get<1> of the tuple *)
operator_plus_second(organism1, organism2) == encounter(organism1, organism2)[2]

(* organism_operators::operator+ *)
operator_plus(organism1, organism2) == encounter(organism1, organism2)[1]

-----------------------------------------------------------------------------
(* Calls on a pair of organisms                                            *)

Idle == Organism("cat", 0, FALSE, FALSE)

InitPair ==
    /\ o1 \in Organisms
    /\ o2 \in Organisms
    /\ call = "none"
    /\ result = <<>>

IdlePair ==
    /\ o1 = Idle
    /\ o2 = Idle
    /\ call = "none"
    /\ result = <<>>

IdleSeries ==
    /\ protagonist = Idle
    /\ args = <<>>
    /\ acc = Idle
    /\ history = <<>>
    /\ pc = "idle"

Init == InitPair /\ IdleSeries

(* result = o1.eat(o2) *)
Eat ==
    /\ call = "none"
    /\ call' = "eat"
    /\ result' = eat(o1, o2)
    /\ UNCHANGED <<o1, o2, seriesVars>>

(* result = o1.breed(o2) *)
Breed ==
    /\ call = "none"
    /\ call' = "breed"
    /\ result' = breed(o1, o2)
    /\ UNCHANGED <<o1, o2, seriesVars>>

(* result = encounter(o1, o2); the call compiles only for a well-formed pair *)
Encounter ==
    /\ call = "none"
    /\ WellFormed(o1, o2)
    /\ call' = "encounter"
    /\ result' = encounter(o1, o2)
    /\ UNCHANGED <<o1, o2, seriesVars>>

Next == Eat \/ Breed \/ Encounter

Spec == Init /\ [][Next]_vars

-----------------------------------------------------------------------------
(* encounter_series(organism1, args...): (organism1 + ... + args) is the   *)
(* binary left fold ((organism1 + a1) + a2) + ...; every operator+ in it   *)
(* instantiates encounter, so its pair must satisfy the requires clause.   *)
(* operator+ returns the type of its left operand, so the running value    *)
(* keeps the protagonist's diet flags.                                     *)

SeriesOrganisms == {o \in Organisms : o.vitality <= MaxSeriesVitality}

ArgPacks == UNION {[1 .. n -> SeriesOrganisms] : n \in 0 .. MaxArgs}

Compiles(p, pack) == \A k \in 1 .. Len(pack) : WellFormed(p, pack[k])

InitSeries ==
    /\ protagonist \in SeriesOrganisms
    /\ args \in ArgPacks
    /\ Compiles(protagonist, args)
    /\ acc = protagonist
    /\ history = <<protagonist>>
    /\ pc = "fold"

(* one operator+ of the fold *)
Plus ==
    /\ pc = "fold"
    /\ Len(history) <= Len(args)
    /\ acc' = operator_plus(acc, args[Len(history)])
    /\ history' = Append(history, acc')
    /\ UNCHANGED <<protagonist, args, pc, pairVars>>

(* the return of the folded value *)
Return ==
    /\ pc = "fold"
    /\ Len(history) = Len(args) + 1
    /\ pc' = "done"
    /\ UNCHANGED <<protagonist, args, acc, history, pairVars>>

SeriesInit == IdlePair /\ InitSeries

SeriesNext == Plus \/ Return

SeriesSpec == SeriesInit /\ [][SeriesNext]_vars

-----------------------------------------------------------------------------
(* Properties of the calls on a pair (checked under Spec)                  *)

Breeds(a, b) == SameDiet(a, b) /\ a.species = b.species

Killed(o) == [o EXCEPT !.vitality = 0]

(* C1, as stated: encounter of two organisms of identical diet and         *)
(* identical species returns both unchanged and the offspring              *)
(* o1.breed(o2), for every pair of vitalities including 0.                 *)
C1_BreedsAtAnyVitality ==
    (call = "encounter" /\ Breeds(o1, o2))
        => /\ result[1] = o1
           /\ result[2] = o2
           /\ result[3] = Some(breed(o1, o2))

(* C1, amended: encounter of two live organisms (both vitalities nonzero)  *)
(* of identical diet and identical species returns both unchanged and      *)
(* exactly one offspring, with the species of o1, the diet of o1 and the   *)
(* vitality of o1.breed(o2), the midpoint of the two vitalities.           *)
C1_LiveSameKindBreeds ==
    (call = "encounter" /\ Breeds(o1, o2) /\ ~is_dead(o1) /\ ~is_dead(o2))
        => /\ result[1] = o1
           /\ result[2] = o2
           /\ result[3] = Some(breed(o1, o2))
           /\ \A c \in result[3] :
                 /\ c.species = o1.species
                 /\ SameDiet(c, o1)
                 /\ 2 * c.vitality <= o1.vitality + o2.vitality
                 /\ o1.vitality + o2.vitality <= 2 * c.vitality + 1

C1_Witness ==
    /\ call = "encounter"
    /\ Breeds(o1, o2)
    /\ o1.can_eat_meat /\ ~o1.can_eat_plants
    /\ o1.vitality = 1 /\ o2.vitality = 4
    /\ result[3] /= nullopt

(* C2: in a well-formed encounter where o1 or o2 has vitality 0, both are  *)
(* returned with unchanged species and vitality and there is no offspring, *)
(* whatever the diets, the species and the other vitality.                 *)
C2_DeadDoesNotParticipate ==
    (call = "encounter" /\ (o1.vitality = 0 \/ o2.vitality = 0))
        => /\ result[1] = o1
           /\ result[2] = o2
           /\ result[3] = nullopt

C2_Witness ==
    /\ call = "encounter"
    /\ o1.vitality = 0
    /\ o2.vitality > 0
    /\ Breeds(o1, o2)
    /\ result = <<o1, o2, nullopt>>

(* C5, as stated: when the diet of A permits eating the kind of B,         *)
(* A.eat(B) has the species of A and vitality A.vitality + B.vitality if B *)
(* is a Plant (for every pair of vitalities), and vitality                 *)
(* A.vitality + floor(B.vitality / 2) if B is an animal and                *)
(* A.vitality > B.vitality.  The sums are the integers' sums.              *)
C5_EatGain ==
    (call = "eat" /\ CanEat(o1, o2))
        => /\ is_plant(o2)
                => /\ result.species = o1.species
                   /\ result.vitality = o1.vitality + o2.vitality
           /\ (~is_plant(o2) /\ o1.vitality > o2.vitality)
                => /\ result.species = o1.species
                   /\ result.vitality = o1.vitality + (o2.vitality \div 2)

(* C5 holds of eat wherever the sum fits the vitality type, and modulo the *)
(* type's range everywhere.                                                *)
C5_EatGainModulo ==
    (call = "eat" /\ CanEat(o1, o2))
        => /\ is_plant(o2)
                => /\ result.species = o1.species
                   /\ result.vitality = (o1.vitality + o2.vitality) % Modulus
           /\ (~is_plant(o2) /\ o1.vitality > o2.vitality)
                => /\ result.species = o1.species
                   /\ result.vitality =
                          (o1.vitality + (o2.vitality \div 2)) % Modulus

(* C6: in an encounter of two live organisms that do not breed, both are   *)
(* returned unchanged with no offspring when (i) neither diet permits      *)
(* eating the other's kind, or (ii) exactly one side can eat the other,    *)
(* the other is an animal, and the predator's vitality is not strictly     *)
(* greater than the prey's.                                                *)
C6_NoQualifyingBranch ==
    (/\ call = "encounter"
     /\ ~is_dead(o1) /\ ~is_dead(o2)
     /\ ~Breeds(o1, o2)
     /\ \/ ~CanEat(o1, o2) /\ ~CanEat(o2, o1)
        \/ /\ CanEat(o1, o2) /\ ~CanEat(o2, o1)
           /\ ~is_plant(o2)
           /\ o1.vitality <= o2.vitality
        \/ /\ CanEat(o2, o1) /\ ~CanEat(o1, o2)
           /\ ~is_plant(o1)
           /\ o2.vitality <= o1.vitality)
        => result = <<o1, o2, nullopt>>

C6_Witness ==
    /\ call = "encounter"
    /\ o1.can_eat_meat /\ ~o1.can_eat_plants
    /\ ~o2.can_eat_meat /\ o2.can_eat_plants
    /\ o1.vitality = o2.vitality
    /\ o1.vitality > 0
    /\ result = <<o1, o2, nullopt>>

(* C7: A.breed(B) has the species of A and vitality exactly                *)
(* floor((min + max) / 2) of the two vitalities as integers, also when     *)
(* their sum exceeds the maximum of the vitality type; B.breed(A) has the  *)
(* same vitality, and the same species when the species are equal.         *)
C7_BreedMidpoint ==
    call = "breed"
        => /\ result.species = o1.species
           /\ result.vitality
                 = (min(o1.vitality, o2.vitality)
                      + max(o1.vitality, o2.vitality)) \div 2
           /\ 2 * result.vitality <= o1.vitality + o2.vitality
           /\ o1.vitality + o2.vitality <= 2 * result.vitality + 1
           /\ breed(o2, o1).vitality = result.vitality
           /\ o1.species = o2.species
                => breed(o2, o1).species = result.species

C7_Witness ==
    /\ call = "breed"
    /\ o1.vitality + o2.vitality >= Modulus
    /\ (o1.vitality + o2.vitality) % 2 = 1
    /\ o1.vitality > o2.vitality
    /\ result.vitality > o2.vitality
    /\ result.vitality < o1.vitality

(* C8: when each diet permits eating the other's kind and the vitalities   *)
(* are equal, A.eat(B) and B.eat(A) both have vitality 0; an encounter of  *)
(* two such live organisms that do not breed returns both dead and no      *)
(* offspring.                                                              *)
C8_MutualKillOnTie ==
    (CanEat(o1, o2) /\ CanEat(o2, o1) /\ o1.vitality = o2.vitality)
        => /\ o1.can_eat_meat /\ o2.can_eat_meat
           /\ call = "eat"
                => /\ result = Killed(o1)
                   /\ eat(o2, o1) = Killed(o2)
           /\ (call = "encounter" /\ ~is_dead(o1) /\ ~is_dead(o2)
               /\ ~Breeds(o1, o2))
                => result = <<Killed(o1), Killed(o2), nullopt>>

C8_Witness ==
    /\ call = "encounter"
    /\ o1.can_eat_meat /\ o2.can_eat_meat
    /\ o1.species = o2.species
    /\ ~SameDiet(o1, o2)
    /\ o1.vitality = 2 /\ o2.vitality = 2
    /\ result[1].vitality = 0 /\ result[2].vitality = 0

(* C9: an encounter never creates vitality in its two participants: the    *)
(* integer sum of the two resulting vitalities is at most the integer sum  *)
(* of the two original ones, the two never both gain, and when one gains   *)
(* the other's resulting vitality is 0.                                    *)
C9_NoVitalityCreated ==
    call = "encounter"
        => /\ result[1].vitality + result[2].vitality
                 <= o1.vitality + o2.vitality
           /\ ~(result[1].vitality > o1.vitality
                /\ result[2].vitality > o2.vitality)
           /\ result[1].vitality > o1.vitality => result[2].vitality = 0
           /\ result[2].vitality > o2.vitality => result[1].vitality = 0

C9_Witness ==
    /\ call = "encounter"
    /\ is_plant(o2)
    /\ o2.vitality >= o1.vitality
    /\ result[1].vitality > o1.vitality
    /\ result[2].vitality = 0

(* C10: encounter is symmetric: if encounter(o1, o2) = (r1, r2, c) then    *)
(* encounter(o2, o1) = (r2, r1, c') with c' absent exactly when c is, and  *)
(* of the same species and vitality as c when present.                     *)
C10_EncounterSymmetric ==
    call = "encounter"
        => LET swapped == encounter(o2, o1)
           IN  /\ swapped[1] = result[2]
               /\ swapped[2] = result[1]
               /\ (swapped[3] = nullopt) <=> (result[3] = nullopt)
               /\ \A c \in result[3] : \A d \in swapped[3] :
                     c.species = d.species /\ c.vitality = d.vitality

C10_Witness ==
    /\ call = "encounter"
    /\ ~Breeds(o1, o2)
    /\ o1.can_eat_meat /\ o2.can_eat_meat
    /\ o2.vitality > o1.vitality
    /\ result[1].vitality = 0
    /\ result[2].vitality > o2.vitality

-----------------------------------------------------------------------------
(* Properties of encounter_series (checked under SeriesSpec)               *)

(* the fold p0 = P, p_i = first component of encounter(p_{i-1}, x_i) *)
RECURSIVE FoldFirst(_, _)
FoldFirst(p, xs) ==
    IF xs = <<>> THEN p
    ELSE FoldFirst(encounter(p, Head(xs))[1], Tail(xs))

(* C3: death of the protagonist is absorbing in encounter_series: once the *)
(* running value has vitality 0 (initially or after step k) it has         *)
(* vitality 0 and the same species after every later step, so the         *)
(* returned value has vitality 0.                                          *)
C3_DeathAbsorbing ==
    \A k \in 1 .. Len(history) :
        history[k].vitality = 0
            => /\ \A j \in k .. Len(history) :
                     /\ history[j].vitality = 0
                     /\ history[j].species = history[k].species
               /\ acc.vitality = 0
               /\ acc.species = history[k].species

C3_Witness ==
    /\ pc = "done"
    /\ Len(history) = 3
    /\ history[1].vitality > 0
    /\ history[2].vitality = 0
    /\ CanEat(protagonist, args[2])
    /\ is_plant(args[2])
    /\ args[2].vitality > 0
    /\ acc.vitality = 0

(* C4: encounter_series(P, x1, ..., xn) is the left-to-right fold of the   *)
(* first component of encounter: every running value is the first          *)
(* component of the encounter of the previous one with the next argument,  *)
(* the returned value is the last of them, and with no arguments it is P.  *)
C4_SeriesIsLeftFold ==
    /\ history[1] = protagonist
    /\ \A k \in 1 .. (Len(history) - 1) :
          history[k + 1] = encounter(history[k], args[k])[1]
    /\ acc = FoldFirst(protagonist, SubSeq(args, 1, Len(history) - 1))
    /\ pc = "done"
          => /\ acc = FoldFirst(protagonist, args)
             /\ args = <<>> => acc = protagonist

C4_Witness ==
    /\ pc = "done"
    /\ Len(args) >= 2
    /\ history[2] /= history[1]
    /\ history[3] /= history[2]
    /\ acc = history[3]
    /\ encounter(history[1], args[1])[2] /= args[1]

====
